---- MODULE Spec2Model ----
(***************************************************************************)
(* Model of src/main.py: AirflowDagRunner (authenticate, trigger a DAG     *)
(* run, then poll its status and tail the task logs).                      *)
(*                                                                         *)
(* The Airflow server is the environment.  Its answers are chosen when a   *)
(* request is made: a request either fails (network error, non-2xx status, *)
(* malformed body) or delivers a body.  The log of a task on the server is *)
(* append-only, entries arrive in any timestamp order.  Timestamps are the *)
(* non-empty strings of the API, modelled by 1, 2, ... with the string     *)
(* order; None is modelled by 0.                                           *)
(*                                                                         *)
(* Two specifications run the same program against two servers:            *)
(*   Spec      a run of several tasks whose logs are short,                *)
(*   TailSpec  a run of one task whose log is long.                        *)
(***************************************************************************)
EXTENDS Integers, Sequences, FiniteSets, TLC

\* ---------------------------------------------------------------- bounds
\* the number of log entries the server produces during a run of TailSpec
MaxEntries == 2
\* the number of log entries the server produces during a run of Spec
MaxShortLog == 1
\* the number of iterations of the poll loop
MaxTicks == 2

\* ------------------------------------------------------------- constants
None == 0
NoLevel == "None"

completed_states == {"success", "failed"}
running_states == {"running"}

TaskIds == {"t1", "t2"}
TaskStates == {"queued", "running", "success", "failed"}
RunStates == {"running", "success", "failed"}
\* n entries show every order of timestamps with n values
Timestamps(n) == 1..n
Loggers == {"root", "task"}
Levels == {"info", NoLevel}
\* no filter, and a filter that lets one of the two loggers through
LogSourceChoices == {{}, {"task"}}

\* An entry of logger "root" without level is left out: it behaves as the
\* "task" entry without level when log_sources is empty (the logger is not
\* read) and as the "root" entry with level when log_sources is {"task"}.
LogEntries(n) ==
    {e \in [timestamp : Timestamps(n), logger : Loggers, level : Levels] :
        e.level = NoLevel => e.logger = "task"}

\* an element of task_instances: a JSON object, or something else ("bad")
BadTask == [task_id |-> "bad", state |-> "bad"]
TaskInstances == [task_id : TaskIds, state : TaskStates] \cup {BadTask}

SeqsUpTo(S, n) == UNION {[1..k -> S] : k \in 0..n}

\* the task lists over the task ids of Ids; task ids are unique within a run
TaskListsOf(Ids) ==
    {l \in SeqsUpTo(TaskInstances, Cardinality(Ids)) :
        /\ \A i \in 1..Len(l) : l[i] # BadTask => l[i].task_id \in Ids
        /\ \A i, j \in 1..Len(l) :
              (i # j /\ l[i] # BadTask /\ l[j] # BadTask) => l[i].task_id # l[j].task_id}
TaskLists == TaskListsOf(TaskIds)
OneTaskLists == TaskListsOf({"t1"})

VARIABLES
    pc,               \* position of the process
    log_sources,      \* self.log_sources
    tick,             \* number of the current iteration of the while loop
    state,            \* monitor_dag: state (run state of the current tick)
    tasks,            \* monitor_dag: tasks (task list of the current tick)
    idx,              \* position of the for loop in tasks
    logged_tasks,     \* monitor_dag: logged_tasks
    task_log_cutoffs, \* monitor_dag: task_log_cutoffs (a dict: a function on its keys)
    server_logs,      \* environment: the log content of each task so far
    printed,          \* console: for each task, how often each log entry was printed
    last_printed,     \* console: for each task, the timestamp of the entry printed last
    entry,            \* _print_task_logs: log_item, a kept entry taken on its own
    line,             \* console: what lines 104-117 made of that entry
    call,             \* the _print_task_logs call made for tasks[idx], if any
    completion,       \* console: the run state named by the completion message
    monitor_error,    \* console: what the diagnostic of line 90 reports
    requests,         \* the requests of the current iteration, in order
    seen_completed,   \* the task ids the for loop has read in a completed state
    exit_code,        \* exit code of the process
    posts             \* the POST requests of the process, in order

render_vars == <<entry, line>>

vars == <<entry, line, pc, log_sources, tick, state, tasks, idx, logged_tasks, task_log_cutoffs,
          server_logs, printed, last_printed, call, completion, monitor_error, requests,
          seen_completed, exit_code, posts>>

\* ------------------------------------------------------ _print_task_logs
\* line 101-102: not self.log_sources or r.get("logger") in self.log_sources
\*               and (not cutoff or r.get('timestamp') > cutoff)
\* ("and" binds tighter than "or")
\* the filter if "or" bound tighter than "and": the cutoff test on every entry
KeepIntended(r, sources, cutoff) ==
    /\ (sources = {} \/ r.logger \in sources)
    /\ (cutoff = None \/ r.timestamp > cutoff)

Keep(r, sources, cutoff) ==
    \/ sources = {}
    \/ /\ r.logger \in sources
       /\ (cutoff = None \/ r.timestamp > cutoff)

\* filtered_logs, as the indices of the kept entries of content, in list order
RECURSIVE FilterFrom(_, _, _, _)
FilterFrom(content, sources, cutoff, i) ==
    IF i > Len(content) THEN <<>>
    ELSE (IF Keep(content[i], sources, cutoff) THEN <<i>> ELSE <<>>)
         \o FilterFrom(content, sources, cutoff, i + 1)

filtered_logs(content, sources, cutoff) == FilterFrom(content, sources, cutoff, 1)

\* line 115: level.lower() raises AttributeError when the entry has no level
Raises(log_item) == log_item.level = NoLevel

\* lines 103-117: the number of kept entries printed; the loop stops at the
\* first kept entry that raises, which is not printed
NumPrinted(content, kept) ==
    LET bad == {k \in 1..Len(kept) : Raises(content[kept[k]])}
    IN  IF bad = {} THEN Len(kept)
        ELSE (CHOOSE k \in bad : \A m \in bad : k <= m) - 1

\* the timestamp of the first kept entry instead of the last one
ReturnFirst(content, kept, cutoff) ==
    IF kept # <<>> THEN content[kept[1]].timestamp ELSE cutoff

\* the largest timestamp of the kept entries instead of the last one
ReturnMax(content, kept, cutoff) ==
    IF kept # <<>>
    THEN LET ts == {content[kept[k]].timestamp : k \in 1..Len(kept)}
         IN  CHOOSE m \in ts : \A x \in ts : x <= m
    ELSE cutoff

\* line 118: return filtered_logs[-1]['timestamp'] if filtered_logs else cutoff
ReturnValue(content, kept, cutoff) ==
    IF kept # <<>> THEN content[kept[Len(kept)]].timestamp ELSE cutoff

\* lines 119-120: the except branch prints and falls off the end of the
\* function, so the call evaluates to None
ExceptReturn(cutoff) == None

\* line 119: except Exception catches whatever lines 98-118 raise, nothing
\* reaches the caller
\* a handler that lets the failure through to monitor_dag
PropagatesFailure(ok) == ~ok

Propagates(ok) == FALSE

NoCall == [made |-> FALSE]

\* _print_task_logs(task_id, cutoff) for a response of the server:
\* fetched = FALSE for a request that raises (line 98-100), content otherwise
print_task_logs(task_id, cutoff, sources, fetched, content) ==
    LET kept == IF fetched THEN filtered_logs(content, sources, cutoff) ELSE <<>>
        n == NumPrinted(content, kept)
        ok == fetched /\ n = Len(kept)
    IN  [made |-> TRUE, task_id |-> task_id, cutoff |-> cutoff,
         fetched |-> fetched, ok |-> ok, raised |-> Propagates(ok),
         kept |-> kept, nprinted |-> n,
         ret |-> IF ok THEN ReturnValue(content, kept, cutoff) ELSE ExceptReturn(cutoff)]

\* line 117: the timestamp of the entry the call printed last, the earlier
\* value when the call printed nothing
LastPrinted(before, content, c) ==
    IF c.nprinted > 0 THEN content[c.kept[c.nprinted]].timestamp ELSE before

\* ------------------------------------------- lines 104-117, one entry
\* The fields of an entry that lines 105-117 read. error_detail is given by
\* its shape, which decides what log_item['error_detail'][0]['exc_value']
\* does, and by the value found when the lookup succeeds.
Events == {"boom", "done"}
RenderLevels == {"info", "error", "ERROR", "Error", NoLevel}
NoValue == ""
ErrorDetails ==
    {[shape |-> sh, exc_value |-> NoValue] :
        sh \in {"absent", "null", "number", "dict", "empty_list",
                "list_of_number", "list_of_dict_without"}}
    \cup {[shape |-> "list_of_dict_with", exc_value |-> v] : v \in {"oops", ""}}
RenderEntries == [event : Events, level : RenderLevels, error_detail : ErrorDetails]

NoEntry == [event |-> "", level |-> NoLevel,
            error_detail |-> [shape |-> "absent", exc_value |-> NoValue]]
NoLine == [done |-> FALSE, printed |-> FALSE, tag |-> "", msg |-> "", failure |-> FALSE]

\* str.lower() and str.upper() on the levels above
Lower(level) == IF level \in {"error", "ERROR", "Error"} THEN "error" ELSE "info"
Upper(level) == IF level \in {"error", "ERROR", "Error"} THEN "ERROR" ELSE "INFO"

\* line 110: what log_item['error_detail'][0]['exc_value'] raises, "none" when
\* the three lookups succeed
LookupRaises(error_detail) ==
    CASE error_detail.shape = "absent"               -> "KeyError"
      [] error_detail.shape = "null"                 -> "TypeError"
      [] error_detail.shape = "number"               -> "TypeError"
      [] error_detail.shape = "dict"                 -> "KeyError"
      [] error_detail.shape = "empty_list"           -> "IndexError"
      [] error_detail.shape = "list_of_number"       -> "TypeError"
      [] error_detail.shape = "list_of_dict_without" -> "KeyError"
      [] OTHER                                       -> "none"

\* line 111: except (IndexError, KeyError, TypeError)
Caught == {"IndexError", "KeyError", "TypeError"}

\* line 115: "and error_detail" tests the value for truth; of the values
\* above the empty string is false
Truthy(v) == v # ""

\* lines 105-117 for one entry: the line printed, or the failure that the
\* handler of lines 119-120 reports as a failure to get the logs
RenderLine(log_item) ==
    LET exc == LookupRaises(log_item.error_detail)
        error_detail == IF exc = "none" THEN log_item.error_detail.exc_value ELSE NoValue
    IN  IF exc # "none" /\ exc \notin Caught
        THEN [done |-> TRUE, printed |-> FALSE, tag |-> "", msg |-> "", failure |-> TRUE]
        ELSE IF Raises(log_item)
        THEN [done |-> TRUE, printed |-> FALSE, tag |-> "", msg |-> "", failure |-> TRUE]
        ELSE [done |-> TRUE, printed |-> TRUE, tag |-> Upper(log_item.level),
              msg |-> IF Lower(log_item.level) = "error" /\ exc = "none"
                         /\ Truthy(error_detail)
                      THEN log_item.event \o ": " \o error_detail
                      ELSE log_item.event,
              failure |-> FALSE]

\* task_log_cutoffs.get(task_id)
Get(d, k) == IF k \in DOMAIN d THEN d[k] ELSE None

\* d[k] = v
Put(d, k, v) == [x \in DOMAIN d \cup {k} |-> IF x = k THEN v ELSE d[x]]

\* console bookkeeping: entries kept[1..n] of the task are printed once more;
\* a count is 0 (never printed), 1 (printed once) or 2 (printed again)
Bump(counts, kept, n) ==
    [i \in DOMAIN counts |->
        IF \E k \in 1..n : kept[k] = i
        THEN (IF counts[i] = 0 THEN 1 ELSE 2)
        ELSE counts[i]]

Zeros(n) == [i \in 1..n |-> 0]

\* ------------------------------------------------------------------ Init
MonitorInit ==
    /\ pc = "auth"
    /\ log_sources \in LogSourceChoices
    /\ tick = 0
    /\ state = "none"
    /\ tasks = <<>>
    /\ idx = 0
    /\ logged_tasks = {}
    /\ task_log_cutoffs = <<>>
    /\ server_logs = [t \in TaskIds |-> <<>>]
    /\ printed = [t \in TaskIds |-> <<>>]
    /\ last_printed = [t \in TaskIds |-> None]
    /\ call = NoCall
    /\ completion = "none"
    /\ monitor_error = "none"
    /\ requests = <<>>
    /\ seen_completed = {}
    /\ exit_code = -1
    /\ posts = <<>>

Init ==
    /\ MonitorInit
    /\ entry = NoEntry
    /\ line = NoLine

monitor_vars == <<tick, state, tasks, idx, logged_tasks, task_log_cutoffs,
                  server_logs, printed, last_printed, call, completion, monitor_error, requests,
                  seen_completed>>

Request(url, task_id, ok) == [url |-> url, task_id |-> task_id, ok |-> ok]

\* --------------------------------------------------------------- __main__
\* line 137 / lines 22-33: the constructor authenticates; a failure raises,
\* lines 141-143 print it and exit(1)
Authenticate ==
    /\ pc = "auth"
    /\ \/ /\ pc' = "trigger"
          /\ exit_code' = exit_code
          /\ posts' = Append(posts, Request("auth", "-", TRUE))
       \/ /\ pc' = "exited"
          /\ exit_code' = 1
          /\ posts' = Append(posts, Request("auth", "-", FALSE))
    /\ UNCHANGED <<render_vars, log_sources, monitor_vars>>

\* line 138 / lines 35-47: trigger_dag; a failure raises, exit(1)
TriggerDag ==
    /\ pc = "trigger"
    /\ \/ /\ pc' = "status"
          /\ tick' = 1
          /\ exit_code' = exit_code
          /\ posts' = Append(posts, Request("trigger", "-", TRUE))
       \/ /\ pc' = "exited"
          /\ exit_code' = 1
          /\ tick' = tick
          /\ posts' = Append(posts, Request("trigger", "-", FALSE))
    /\ UNCHANGED <<render_vars, log_sources, state, tasks, idx, logged_tasks, task_log_cutoffs,
                   server_logs, printed, last_printed, call, completion, monitor_error, requests,
                   seen_completed>>

\* ------------------------------------------------------------ monitor_dag
\* lines 89-91: except Exception: print the diagnostic, break
\* a handler that sleeps and polls again instead of break
OnMonitorErrorRetry == "sleep"

OnMonitorError == "aborted"

\* lines 61-63: the status request
GetStatus ==
    /\ pc = "status"
    /\ \/ /\ \E s \in RunStates : state' = s
          /\ pc' = "tasks"
          /\ requests' = <<Request("status", "-", TRUE)>>
          /\ monitor_error' = monitor_error
       \/ /\ state' = state
          /\ pc' = OnMonitorError
          /\ requests' = <<Request("status", "-", FALSE)>>
          /\ monitor_error' = "status"
    /\ UNCHANGED <<render_vars, log_sources, tick, tasks, idx, logged_tasks, task_log_cutoffs,
                   server_logs, printed, last_printed, call, completion, seen_completed, exit_code, posts>>

\* lines 66-68: the task list request
GetTasks(Lists) ==
    /\ pc = "tasks"
    /\ \/ /\ \E l \in Lists : tasks' = l
          /\ idx' = 1
          /\ pc' = "loop"
          /\ requests' = Append(requests, Request("tasks", "-", TRUE))
          /\ monitor_error' = monitor_error
       \/ /\ UNCHANGED <<tasks, idx>>
          /\ pc' = OnMonitorError
          /\ requests' = Append(requests, Request("tasks", "-", FALSE))
          /\ monitor_error' = "tasks"
    /\ UNCHANGED <<render_vars, log_sources, tick, state, logged_tasks, task_log_cutoffs,
                   server_logs, printed, last_printed, call, completion, seen_completed, exit_code, posts>>

InLoop == pc = "loop" /\ idx <= Len(tasks)
\* a for loop that looks at the first element on every pass
TaskFirst == tasks[1]

\* line 70: for task in tasks
task == tasks[idx]

\* line 71: task.get raises for an element that is no JSON object
BadTaskInstance ==
    /\ InLoop
    /\ task = BadTask
    /\ pc' = OnMonitorError
    /\ monitor_error' = "task_instance"
    /\ UNCHANGED <<render_vars, log_sources, tick, state, tasks, idx, logged_tasks, task_log_cutoffs,
                   server_logs, printed, last_printed, call, completion, requests, seen_completed,
                   exit_code, posts>>

\* the for loop without the test of line 73
AlreadyLoggedNever(task_id) == FALSE

\* line 73: if task_id in logged_tasks
AlreadyLogged(task_id) == task_id \in logged_tasks

\* completed_states without "failed"
IsCompletedSuccessOnly(task_state) == task_state = "success"

\* line 79: if task_state in completed_states
IsCompleted(task_state) == task_state \in completed_states

\* line 72 has read a task state: remember the completed ones
Seen(t) == IF t.state \in completed_states THEN seen_completed \cup {t.task_id}
           ELSE seen_completed

\* lines 73-74: if task_id in logged_tasks: continue
SkipLogged ==
    /\ InLoop
    /\ task # BadTask
    /\ AlreadyLogged(task.task_id)
    /\ idx' = idx + 1
    /\ seen_completed' = Seen(task)
    /\ UNCHANGED <<render_vars, pc, log_sources, tick, state, tasks, logged_tasks, task_log_cutoffs,
                   server_logs, printed, last_printed, call, completion, monitor_error, requests,
                   exit_code, posts>>

\* the number of log entries on the server
RECURSIVE SumLen(_, _)
SumLen(logs, S) ==
    IF S = {} THEN 0
    ELSE LET t == CHOOSE x \in S : TRUE IN Len(logs[t]) + SumLen(logs, S \ {t})
NumEntries == SumLen(server_logs, TaskIds)

\* line 75 without completed_states
LogEligibleRunningOnly(task_state) == task_state \in running_states

\* line 75 without a test of the state
LogEligibleAlways(task_state) == TRUE

\* line 75: if task_state in [*running_states, *completed_states]
LogEligible(task_state) == task_state \in running_states \cup completed_states

\* lines 75-78: tail the log of the task and store the returned cutoff.  The
\* server's log has grown by ext since it was last delivered, and holds at
\* most maxlog entries over all tasks.  A request that fails delivers
\* nothing, so what the log gained is seen by the next request that succeeds.
TailTask(maxlog) ==
    /\ InLoop
    /\ task # BadTask
    /\ ~AlreadyLogged(task.task_id)
    /\ LogEligible(task.state)
    /\ \E fetched \in BOOLEAN :
       \E ext \in SeqsUpTo(LogEntries(maxlog),
                            IF fetched THEN maxlog - NumEntries ELSE 0) :
          LET t == task.task_id
              content == server_logs[t] \o ext
              c == print_task_logs(t, Get(task_log_cutoffs, t), log_sources,
                                   fetched, content)
          IN  /\ server_logs' = [server_logs EXCEPT ![t] = content]
              /\ printed' = [printed EXCEPT
                                ![t] = Bump(@ \o Zeros(Len(ext)), c.kept, c.nprinted)]
              /\ last_printed' = [last_printed EXCEPT ![t] = LastPrinted(@, content, c)]
              /\ call' = c
              /\ requests' = Append(requests, Request("logs", t, c.ok))
              /\ IF c.raised
                 THEN /\ pc' = OnMonitorError
                      /\ monitor_error' = "logs"
                      /\ task_log_cutoffs' = task_log_cutoffs
                 ELSE /\ pc' = "mark"
                      /\ monitor_error' = monitor_error
                      /\ task_log_cutoffs' = Put(task_log_cutoffs, t, c.ret)
    /\ seen_completed' = Seen(task)
    /\ UNCHANGED <<render_vars, log_sources, tick, state, tasks, idx, logged_tasks, completion,
                   exit_code, posts>>

\* line 75 false: no call
NoTail ==
    /\ InLoop
    /\ task # BadTask
    /\ ~AlreadyLogged(task.task_id)
    /\ ~LogEligible(task.state)
    /\ pc' = "mark"
    /\ seen_completed' = Seen(task)
    /\ UNCHANGED <<render_vars, log_sources, tick, state, tasks, idx, logged_tasks, task_log_cutoffs,
                   server_logs, printed, last_printed, call, completion, monitor_error, requests,
                   exit_code, posts>>

\* lines 79-80, then the next element of the for loop
MarkLogged ==
    /\ pc = "mark"
    /\ logged_tasks' = IF IsCompleted(task.state)
                       THEN logged_tasks \cup {task.task_id}
                       ELSE logged_tasks
    /\ idx' = idx + 1
    /\ call' = NoCall
    /\ pc' = "loop"
    /\ UNCHANGED <<render_vars, log_sources, tick, state, tasks, task_log_cutoffs, server_logs,
                   printed, last_printed, completion, monitor_error, requests, seen_completed,
                   exit_code, posts>>

\* a state check inside the for loop
LoopFinishedAnywhere == TRUE

\* line 83 is reached when the for loop of line 70 is exhausted
LoopFinished == idx > Len(tasks)

\* a state check that never sees a terminal state
RunCompletedNever(s) == FALSE

\* completed_states without "failed"
RunCompletedSuccessOnly(s) == s = "success"

\* line 83: if state in completed_states
RunCompleted(s) == s \in completed_states

\* lines 83-87, after the for loop: the completion message and break, or
\* sleep
CheckState ==
    /\ pc = "loop"
    /\ LoopFinished
    /\ IF RunCompleted(state)
       THEN pc' = "done" /\ completion' = state
       ELSE pc' = "sleep" /\ completion' = completion
    /\ UNCHANGED <<render_vars, log_sources, tick, state, tasks, idx, logged_tasks, task_log_cutoffs,
                   server_logs, printed, last_printed, call, monitor_error, requests, seen_completed,
                   exit_code, posts>>

\* line 87 and back to line 58; tasks is rebound at line 68 before it is read
Sleep ==
    /\ pc = "sleep"
    /\ tick < MaxTicks
    /\ tick' = tick + 1
    /\ tasks' = <<>>
    /\ idx' = 0
    /\ pc' = "status"
    /\ UNCHANGED <<render_vars, log_sources, state, logged_tasks, task_log_cutoffs, server_logs,
                   printed, last_printed, call, completion, monitor_error, requests, seen_completed,
                   exit_code, posts>>

\* a monitor_dag that lets the error of line 89 reach line 141
ExitCodeAbortRaises(p) == IF p = "aborted" THEN 1 ELSE 0

\* lines 85, 91, 140: monitor_dag returns after either break, nothing is
\* raised, and the script ends with exit code 0
ExitCodeAfter(p) == 0

\* line 140 returns, the script ends
Exit ==
    /\ pc \in {"done", "aborted"}
    /\ pc' = "exited"
    /\ exit_code' = ExitCodeAfter(pc)
    /\ UNCHANGED <<render_vars, log_sources, monitor_vars, posts>>

\* the steps that do not depend on the server's size
Step ==
    \/ Authenticate
    \/ TriggerDag
    \/ GetStatus
    \/ BadTaskInstance
    \/ SkipLogged
    \/ NoTail
    \/ MarkLogged
    \/ CheckState
    \/ Sleep
    \/ Exit

Next ==
    \/ Step
    \/ GetTasks(TaskLists)
    \/ TailTask(MaxShortLog)

Spec == Init /\ [][Next]_vars

TailNext ==
    \/ Step
    \/ GetTasks(OneTaskLists)
    \/ TailTask(MaxEntries)

TailSpec == Init /\ [][TailNext]_vars

\* One kept entry of any shape goes through lines 104-117.
RenderInit ==
    /\ MonitorInit
    /\ entry \in RenderEntries
    /\ line = NoLine

PrintLogItem ==
    /\ ~line.done
    /\ line' = RenderLine(entry)
    /\ UNCHANGED <<entry, pc, log_sources, monitor_vars, exit_code, posts>>

RenderNext == PrintLogItem

RenderSpec == RenderInit /\ [][RenderNext]_vars

\* One thread runs the program and each request returns or raises: a step
\* that can be taken is taken.
\* The poll loop with one task id and the short log: what the loop does next
\* never depends on the content of a log.
PollNext == Step \/ GetTasks(OneTaskLists) \/ TailTask(MaxShortLog)

PollSpec == Init /\ [][PollNext]_vars /\ WF_vars(PollNext)

\* ---------------------------------------------------------------- claims
\* the log of the task of the current call, as the call has seen it
CallContent == server_logs[call.task_id]
TickEnded == pc \in {"sleep", "done"}
LastRequest == requests[Len(requests)]
HasLogRequest(t) ==
    \E k \in 1..Len(requests) : requests[k].url = "logs" /\ requests[k].task_id = t

\* C1: the cutoff stored for a task is non-decreasing from one poll to the
\* next: once it is a timestamp, the value stored after a tail call is a
\* timestamp that is not smaller.
C1_CutoffNonDecreasing ==
    (call.made /\ call.cutoff # None) =>
        /\ call.task_id \in DOMAIN task_log_cutoffs
        /\ task_log_cutoffs[call.task_id] # None
        /\ task_log_cutoffs[call.task_id] >= call.cutoff

\* C2: every entry of a task's log is printed at most once.
C2_PrintedAtMostOnce ==
    \A t \in TaskIds : \A i \in 1..Len(printed[t]) : printed[t][i] <= 1

\* C3: after a tail call that failed, the cutoff stored for the task is the
\* cutoff it held before the call.
C3_FailureKeepsCutoff ==
    (call.made /\ ~call.ok) => Get(task_log_cutoffs, call.task_id) = call.cutoff

\* C4: a failing log fetch does not abort the monitor loop: the loop is at
\* line 79 after it with no diagnostic of line 90, no abort is ever due to a
\* log fetch, and an iteration that ends has handled every listed task (a
\* log-eligible task was fetched, or was in logged_tasks already).
C4_LogFailureNotFatal ==
    /\ monitor_error # "logs"
    /\ (call.made /\ ~call.ok) => (pc = "mark" /\ monitor_error = "none")
    /\ TickEnded =>
          \A i \in 1..Len(tasks) :
              (tasks[i].state \in {"running", "success", "failed"}) =>
                  (HasLogRequest(tasks[i].task_id) \/ tasks[i].task_id \in logged_tasks)

\* an iteration in which the log fetch of the first task failed, the second
\* task was fetched, and the state check let the loop go on
C4_Witness ==
    /\ pc = "sleep"
    /\ Len(requests) = 4
    /\ requests[3].url = "logs" /\ ~requests[3].ok
    /\ requests[4].url = "logs" /\ requests[4].task_id # requests[3].task_id

C6_TerminatesOnTerminalState ==
    /\ pc = "done" => (state \in {"success", "failed"} /\ completion = state)
    /\ pc = "sleep" => (state \notin {"success", "failed"} /\ completion = "none")
    /\ (pc \in {"status", "tasks", "loop", "mark"} /\ tick > 1) => completion = "none"
    /\ (pc = "status" /\ tick > 1) => state \notin {"success", "failed"}
    /\ completion # "none" =>
          (completion = state /\ state \in {"success", "failed"} /\ pc \in {"done", "exited"})

\* normal termination in the second iteration with a listed task that is
\* still running and not in logged_tasks
C6_Witness ==
    /\ pc = "done"
    /\ tick = 2
    /\ state = "failed"
    /\ \E i \in 1..Len(tasks) :
          tasks[i].state = "running" /\ tasks[i].task_id \notin logged_tasks

\* C7 as stated: at the end of an iteration a listed task is in logged_tasks
\* if and only if the state the list gives for it is terminal.
C7_LoggedIffLastStateTerminal ==
    TickEnded =>
        \A i \in 1..Len(tasks) :
            tasks[i].task_id \in logged_tasks <=> tasks[i].state \in {"success", "failed"}

\* C7 as amended: between two task instances of the for loop, logged_tasks
\* holds exactly the tasks that were listed in a terminal state by this or an
\* earlier poll, and a task that is added was not in logged_tasks before.
C7_LoggedIffSeenCompleted ==
    /\ pc # "mark" => logged_tasks = seen_completed
    /\ pc = "mark" => tasks[idx].task_id \notin logged_tasks

\* an iteration ends with a task in logged_tasks that the list shows running
C7_Witness ==
    /\ pc = "sleep"
    /\ \E i \in 1..Len(tasks) :
          tasks[i].task_id \in logged_tasks /\ tasks[i].state = "running"

\* C8: for a task in logged_tasks no step issues a log request, and no step
\* changes its stored cutoff or removes it from logged_tasks.
C8_LoggedNeverPolled ==
    [][\A t \in logged_tasks :
          /\ ~(/\ Len(requests') > Len(requests)
               /\ requests'[Len(requests')].url = "logs"
               /\ requests'[Len(requests')].task_id = t)
          /\ t \in logged_tasks'
          /\ (t \in DOMAIN task_log_cutoffs <=> t \in DOMAIN task_log_cutoffs')
          /\ Get(task_log_cutoffs', t) = Get(task_log_cutoffs, t)]_vars

\* the second poll lists a logged task as running and the loop has passed it
\* without a log request
C8_Witness ==
    /\ tick = 2
    /\ pc = "loop"
    /\ idx = 2
    /\ tasks[1].state = "running"
    /\ tasks[1].task_id \in logged_tasks
    /\ Get(task_log_cutoffs, tasks[1].task_id) # None
    /\ Len(requests) = 2

\* C9: a step that adds a task to logged_tasks adds the task instance the for
\* loop is at, whose state is terminal, after the log request of this
\* iteration for that task instance (failed or not).
C9_TailBeforeAdd ==
    [][logged_tasks' # logged_tasks =>
          /\ pc = "mark"
          /\ tasks[idx].state \in {"success", "failed"}
          /\ logged_tasks' = logged_tasks \cup {tasks[idx].task_id}
          /\ call.made
          /\ call.task_id = tasks[idx].task_id
          /\ LastRequest = Request("logs", tasks[idx].task_id, call.ok)]_vars

\* a task was added to logged_tasks right after its log fetch failed
C9_Witness ==
    /\ pc = "loop"
    /\ idx = 2
    /\ tasks[1].task_id \in logged_tasks
    /\ LastRequest.url = "logs"
    /\ LastRequest.task_id = tasks[1].task_id
    /\ ~LastRequest.ok

\* C10: the filter keeps an entry exactly when no source filter is configured,
\* or its logger is in log_sources and (no cutoff is set or its timestamp is
\* greater than the cutoff).
C10_FilterPolicy ==
    (call.made /\ call.fetched) =>
        \A i \in 1..Len(CallContent) :
            (\E k \in 1..Len(call.kept) : call.kept[k] = i) <=>
                \/ log_sources = {}
                \/ /\ CallContent[i].logger \in log_sources
                   /\ (call.cutoff = None \/ CallContent[i].timestamp > call.cutoff)

\* without a source filter an entry that is not newer than the cutoff is kept
C10_Witness ==
    /\ call.made
    /\ call.fetched
    /\ log_sources = {}
    /\ call.cutoff # None
    /\ \E k \in 1..Len(call.kept) : CallContent[call.kept[k]].timestamp <= call.cutoff

\* C11: a call that succeeds prints the kept entries, all of them and in the
\* order of the log, and returns the timestamp of the kept entry that is last
\* in the log, or the cutoff it was given when no entry is kept.
C11_ReturnsLastKept ==
    (call.made /\ call.ok) =>
        LET K == {i \in 1..Len(CallContent) :
                     \/ log_sources = {}
                     \/ /\ CallContent[i].logger \in log_sources
                        /\ (call.cutoff = None \/ CallContent[i].timestamp > call.cutoff)}
        IN  /\ {call.kept[k] : k \in 1..Len(call.kept)} = K
            /\ \A k \in 1..Len(call.kept) - 1 : call.kept[k] < call.kept[k + 1]
            /\ call.nprinted = Len(call.kept)
            /\ \A i \in K : printed[call.task_id][i] >= 1
            /\ call.ret = IF K = {} THEN call.cutoff
                          ELSE CallContent[CHOOSE m \in K : \A i \in K : i <= m].timestamp

\* two entries are kept and the last one has the smaller timestamp, which is
\* what the call returns
C11_Witness ==
    /\ call.made
    /\ call.ok
    /\ Len(call.kept) = 2
    /\ CallContent[call.kept[1]].timestamp > CallContent[call.kept[2]].timestamp
    /\ call.ret = CallContent[call.kept[2]].timestamp

\* C12: the trigger request follows a successful authentication and the
\* monitor follows a successful trigger; a failed authentication or trigger
\* is the last request of the process, which exits with code 1; a monitor
\* that ends, by the completion message or by an abort, exits with code 0.
C12_OrderAndExitCode ==
    /\ Len(posts) <= 2
    /\ Len(posts) >= 1 => posts[1].url = "auth"
    /\ Len(posts) = 2 => (posts[1].ok /\ posts[2].url = "trigger")
    /\ (tick >= 1 \/ requests # <<>>) => (Len(posts) = 2 /\ posts[2].ok)
    /\ pc # "exited" => exit_code = -1
    /\ pc = "exited" =>
          /\ exit_code \in {0, 1}
          /\ exit_code = 1 <=> ~posts[Len(posts)].ok
          /\ exit_code = 1 => (tick = 0 /\ requests = <<>>)
          /\ exit_code = 0 <=> (completion # "none" \/ monitor_error # "none")

\* the process has exited with code 0 after the monitor aborted on a failed
\* status request
C12_Witness ==
    /\ pc = "exited"
    /\ exit_code = 0
    /\ monitor_error = "status"

\* C13: the step of the for loop at a task instance calls the tailer exactly
\* when the task is not in logged_tasks and its state is running, success or
\* failed; the call gets the stored cutoff, one log request is issued and the
\* returned cutoff is stored over it.  Otherwise nothing is requested and no
\* cutoff changes.  No other step changes a cutoff, and the step of line 79
\* adds nothing for a task whose state is not terminal.
C13_TailedIffEligible ==
    [][/\ (pc = "loop" /\ idx <= Len(tasks) /\ tasks[idx] # BadTask) =>
             LET t == tasks[idx].task_id
                 s == tasks[idx].state
             IN  IF t \notin logged_tasks /\ s \in {"running", "success", "failed"}
                 THEN /\ call'.made
                      /\ call'.task_id = t
                      /\ call'.cutoff = Get(task_log_cutoffs, t)
                      /\ requests' = Append(requests, Request("logs", t, call'.ok))
                      /\ task_log_cutoffs' = Put(task_log_cutoffs, t, call'.ret)
                      /\ logged_tasks' = logged_tasks
                 ELSE /\ requests' = requests
                      /\ task_log_cutoffs' = task_log_cutoffs
                      /\ logged_tasks' = logged_tasks
                      /\ call' = call
       /\ task_log_cutoffs' # task_log_cutoffs => (pc = "loop" /\ pc' = "mark")
       /\ (pc = "mark" /\ tasks[idx].state \notin {"success", "failed"}) =>
             logged_tasks' = logged_tasks]_vars

\* the second poll lists a task as queued whose cutoff is a timestamp: the
\* loop is at line 79 without a call, the cutoff is still stored
C13_Witness ==
    /\ tick = 2
    /\ pc = "mark"
    /\ tasks[idx].state = "queued"
    /\ ~call.made
    /\ Len(requests) = 2
    /\ Get(task_log_cutoffs, tasks[idx].task_id) # None

\* C14: the step that prints the completion message is taken once, when the
\* for loop has handled every task instance of the list (a log-eligible one
\* was fetched or was in logged_tasks already, a terminal one is in
\* logged_tasks), names the run state of this iteration, and ends the loop.
C14_CompletionAfterTasks ==
    [][/\ completion' # completion =>
             /\ completion = "none"
             /\ completion' = state
             /\ state \in {"success", "failed"}
             /\ pc' = "done"
             /\ requests' = requests
             /\ Len(requests) >= 2
             /\ requests[1] = Request("status", "-", TRUE)
             /\ requests[2] = Request("tasks", "-", TRUE)
             /\ idx = Len(tasks) + 1
             /\ \A i \in 1..Len(tasks) :
                   /\ tasks[i] # BadTask
                   /\ tasks[i].state \in {"running", "success", "failed"} =>
                         (HasLogRequest(tasks[i].task_id) \/ tasks[i].task_id \in logged_tasks)
                   /\ tasks[i].state \in {"success", "failed"} =>
                         tasks[i].task_id \in logged_tasks
       /\ (pc' = "done" /\ pc # "done") => completion' # completion
       /\ completion # "none" => (completion' = completion /\ pc' = "exited")]_vars

\* the completion message is printed in an iteration that has fetched the
\* logs of two tasks and added both to logged_tasks
C14_Witness ==
    /\ pc = "done"
    /\ completion = "success"
    /\ Len(tasks) = 2
    /\ Len(requests) = 4
    /\ \A i \in 1..2 : tasks[i].state \in {"success", "failed"}
    /\ logged_tasks = TaskIds

\* C15: the monitor has stopped exactly when it has printed the completion
\* message or the diagnostic of line 90; an iteration that ends in sleep is
\* followed by the next iteration, for every iteration below the bound of the
\* model; an iteration that has fetched a terminal run state, and a monitor
\* that has printed the diagnostic, lead to the end of the process.
MonitorStopped == pc \in {"done", "aborted"} \/ (pc = "exited" /\ exit_code = 0)

C16_CutoffIsLastPrinted ==
    \A t \in TaskIds :
        /\ (\A i \in 1..Len(printed[t]) : printed[t][i] = 0) =>
               (Get(task_log_cutoffs, t) = None /\ last_printed[t] = None)
        /\ Get(task_log_cutoffs, t) # None =>
               Get(task_log_cutoffs, t) = last_printed[t]

\* two entries of one poll were printed, the later one with the smaller
\* timestamp, and the stored cutoff is that timestamp
C16_Witness ==
    /\ pc = "mark"
    /\ call.made /\ call.ok /\ call.nprinted = 2
    /\ CallContent[call.kept[1]].timestamp > CallContent[call.kept[2]].timestamp
    /\ Get(task_log_cutoffs, call.task_id) = CallContent[call.kept[2]].timestamp

\* C17: a rendered entry is printed, with the message "event: exc_value" when
\* its level is "error" in any case and error_detail[0].exc_value is present
\* and with the plain event otherwise; the rendering never ends in the report
\* of a failure to get the logs.
ExcValuePresent == entry.error_detail.shape = "list_of_dict_with"

C17_Rendering ==
    line.done =>
        /\ line.printed
        /\ ~line.failure
        /\ line.msg = IF entry.level \in {"error", "ERROR", "Error"} /\ ExcValuePresent
                      THEN entry.event \o ": " \o entry.error_detail.exc_value
                      ELSE entry.event

\* What lines 104-117 do for the entries that have a level: the lookup
\* failures are swallowed and the message is "event: exc_value" exactly when
\* the level is "error" in any case and the value found is true.
RenderingWithLevel ==
    (line.done /\ entry.level # NoLevel) =>
        /\ line.printed
        /\ ~line.failure
        /\ line.tag = Upper(entry.level)
        /\ line.msg = IF /\ entry.level \in {"error", "ERROR", "Error"}
                         /\ ExcValuePresent
                         /\ entry.error_detail.exc_value # ""
                      THEN entry.event \o ": " \o entry.error_detail.exc_value
                      ELSE entry.event

\* C18: the requests of one iteration are one status request, then, only
\* after the status request succeeded, one task-list request, then, only after
\* the task-list request succeeded, log requests for task instances of the
\* list, at most one for each, in the order of the list. (At pc = "status"
\* the next iteration has begun and requests still holds those of the last.)
LogRequestsInListOrder ==
    \E f \in [3..Len(requests) -> 1..Len(tasks)] :
        /\ \A k \in 3..Len(requests) :
              /\ tasks[f[k]] # BadTask
              /\ tasks[f[k]].task_id = requests[k].task_id
              /\ f[k] <= idx
        /\ \A k, m \in 3..Len(requests) : k < m => f[k] < f[m]

C18_RequestsSequential ==
    /\ \A k \in 1..Len(requests) :
          requests[k].url = (IF k = 1 THEN "status" ELSE IF k = 2 THEN "tasks" ELSE "logs")
    /\ Len(requests) >= 2 => requests[1].ok
    /\ Len(requests) >= 3 => requests[2].ok
    /\ pc # "status" => LogRequestsInListOrder
    /\ (tick >= 1 /\ pc # "status") => Len(requests) >= 1

\* an iteration ended after the status request, the task-list request and one
\* log request for each of the two listed task instances, in list order
C18_Witness ==
    /\ pc = "sleep"
    /\ Len(requests) = 4
    /\ Len(tasks) = 2
    /\ requests[3] = Request("logs", tasks[1].task_id, TRUE)
    /\ requests[4].url = "logs" /\ requests[4].task_id = tasks[2].task_id

\* C19: with a source filter, when a poll has tailed a task and the log was
\* fetched, every entry of the fetched log whose logger is in log_sources has
\* been printed at least once, in this poll or an earlier one.
C19_AllSourceEntriesPrinted ==
    (pc = "mark" /\ call.made /\ call.fetched /\ log_sources # {}) =>
        \A i \in 1..Len(CallContent) :
            CallContent[i].logger \in log_sources => printed[call.task_id][i] >= 1

====
